---- MODULE Spec2Model ----
(***************************************************************************)
(* Model of src/main.py, class rosbag_reader: the lidar export             *)
(* (export_pointclouds, raw_hesai_to_cartesian), the 1-d sensor export     *)
(* (export_1d_data) and __exit__.                                          *)
(*                                                                         *)
(* Conventions.                                                            *)
(*  - Python indices are 0-based; a Python list l is the TLA+ sequence s   *)
(*    with l[k] = s[k+1].  Block, channel, packet and message numbers in   *)
(*    the model are the Python (0-based) ones.                             *)
(*  - A row of a point array is kept as its polar triple (distance in mm,  *)
(*    elevation in degrees, azimuth in degrees): lines 151-153 compute     *)
(*    x, y, z as a function of exactly these three numbers.                *)
(*  - Every row carries a history field src = [msg, pkt, blk, ch] naming   *)
(*    the channel reading it was computed from.  The program never reads   *)
(*    it.                                                                  *)
(*  - A raised Python exception is a result [exception |-> name]; nothing  *)
(*    in main.py catches an exception, so it ends the running method.      *)
(*  - The argument, the locals and the return value of                     *)
(*    raw_hesai_to_cartesian are kept as variables in SpecPacket, which    *)
(*    follows one call of it; in Spec the call is one step of the packet   *)
(*    loop and only what outlives the call is kept.                        *)
(*  - export_1d_data also writes one csv line per message of the topic;    *)
(*    of a csv file the model keeps the name and the header line.          *)
(***************************************************************************)
EXTENDS Integers, Sequences, FiniteSets, TLC

VARIABLES
    pc,                 \* control position of the running method
    exception,          \* the exception that ended the method, or "none"
    warnings,           \* the warnings issued so far (warnings.warn)
    n_messages,         \* number of scan messages read_messages will yield
    packets_left,       \* firing packets the bag still holds
    msg_number,         \* enumerate index of the current scan message
    msg,                \* the current scan message
    i,                  \* enumerate index of the next firing packet of msg
    calibration_array,  \* self.calibration_array
    point_array,        \* local of export_pointclouds
    reflectance_array,  \* local of export_pointclouds
    pcd,                \* the one o3d PointCloud object of export_pointclouds
    written,            \* the calls of o3d.io.write_point_cloud, in order
    well_formed,        \* history: every input of msg read so far is well formed
    packet_data,        \* argument of raw_hesai_to_cartesian
    hesai_udp_dto,      \* local of raw_hesai_to_cartesian
    returned,           \* what raw_hesai_to_cartesian returned
    reconstructed,      \* history: block numbers whose loop body has run
    exported_data,      \* self.exported_data
    calls,              \* history: arguments of the export_1d_data calls
    csv_files,          \* the csv files written, each with its header line
    overview            \* lines of overview.csv, once __exit__ wrote it

vars == <<pc, exception, warnings, n_messages, packets_left, msg_number, msg, i,
          calibration_array, point_array, reflectance_array, pcd, written,
          well_formed, packet_data, hesai_udp_dto, returned, reconstructed,
          exported_data, calls, csv_files, overview>>

lidarVars == <<n_messages, packets_left, msg_number, msg, i, calibration_array,
               point_array, reflectance_array, pcd, written, well_formed>>
packetVars == <<packet_data, hesai_udp_dto, returned, reconstructed>>
exportVars == <<exported_data, calls, csv_files, overview>>

----------------------------------------------------------------------------
(* Bounds of the model *)

MaxMsgs == 2        \* scan messages in the bag
MaxPackets == 2     \* firing packets in the bag, over all scan messages
MaxBlocks == 4      \* firing blocks in one packet
NumChannels == 2    \* laser channels of the sensor
MaxCalls == 2       \* export_1d_data calls inside one with-block

----------------------------------------------------------------------------
(* Values *)

\* the Python value None, where a result record is expected
None == [is_none |-> TRUE]
\* self.calibration_array before the first assignment to it
Unset == <<>>
NoMsg == [calibration |-> [utf8 |-> FALSE, text |-> <<>>], n_firing |-> 0,
          stamp |-> [secs |-> 0, nsecs |-> 0]]

Ok(v) == [exception |-> "none", value |-> v]
Raise(e) == [exception |-> e]

\* return_mode marker of a dual-return packet (the only marker main.py names)
DualMarker == 57
\* marker of a single-return packet in the packet trailer
SingleMarker == 56
\* a marker that is neither
UnknownMarker == 0
ReturnModes == {SingleMarker, DualMarker, UnknownMarker}

----------------------------------------------------------------------------
(* Inputs: calibration payloads *)

HeaderRow == <<"Laser id", "Elevation", "Azimuth">>
\* row of channel c (0-based): laser id, elevation_deg, azimuth offset_deg
RowA(c) == <<c + 1, 15 - 5 * c, 1>>
RowB(c) == <<c + 1, 16 - 5 * c, 2>>
TextA == <<HeaderRow>> \o [r \in 1..NumChannels |-> RowA(r - 1)]
TextB == <<HeaderRow>> \o [r \in 1..NumChannels |-> RowB(r - 1)]
TextLong == <<HeaderRow>> \o [r \in 1..(NumChannels + 1) |-> RowA(r - 1)]
TextRagged == <<HeaderRow>> \o [r \in 1..NumChannels |->
                  IF r = NumChannels THEN <<r, 0>> ELSE RowA(r - 1)]

\* msg.packets[-1].data[8:] : the bytes are utf-8 text or they are not
CalibrationPayloads ==
    { [utf8 |-> TRUE, text |-> TextA],
      [utf8 |-> TRUE, text |-> TextB],
      [utf8 |-> TRUE, text |-> TextLong],
      [utf8 |-> TRUE, text |-> TextRagged],
      [utf8 |-> FALSE, text |-> TextA] }

(* Inputs: firing packets *)

\* one reading per channel c (0-based); a silent block has no return at all,
\* a sparse block has returns on the odd channels only, a full block on all
SilentChannels == [c \in 1..NumChannels |->
                     [distance_value |-> 0, reflectance_value |-> 40 + c]]
SparseChannels == [c \in 1..NumChannels |->
                     IF c % 2 = 0
                       THEN [distance_value |-> 1000 * c, reflectance_value |-> 20 + c]
                       ELSE [distance_value |-> 0, reflectance_value |-> 30 + c]]
FullChannels == [c \in 1..NumChannels |->
                   [distance_value |-> 500 * c, reflectance_value |-> 10 + c]]
ChannelPatterns == {SilentChannels, SparseChannels, FullChannels}

\* azimuth of block b (0-based): a dual-return packet holds every angular
\* sample twice, [10, 10, 20, 20, ...]; otherwise [10, 20, 30, ...]
AzimuthOf(mode, b) == IF mode = DualMarker THEN 10 * ((b \div 2) + 1) ELSE 10 * (b + 1)

BlockSeqs(mode) ==
    UNION { { [b \in 1..n |-> [azimuth_deg |-> AzimuthOf(mode, b - 1), channel |-> f[b]]]
              : f \in [1..n -> ChannelPatterns] } : n \in 0..MaxBlocks }

TruncatedPacket == [truncated |-> TRUE, return_mode |-> SingleMarker, blocks |-> <<>>]
RawPackets ==
    {TruncatedPacket} \cup
    UNION { { [truncated |-> FALSE, return_mode |-> m, blocks |-> bs]
              : bs \in BlockSeqs(m) } : m \in ReturnModes }

\* no packet has been passed yet
NoPacket == [truncated |-> TRUE, return_mode |-> UnknownMarker, blocks |-> <<>>]

\* msg.packets[0].stamp
Stamp(n) == [secs |-> 1648000000 + n, nsecs |-> 5]

----------------------------------------------------------------------------
(* Library functions *)

\* bytes.decode('utf-8'), line 99
Decode(payload) == IF payload.utf8 THEN Ok(payload.text) ELSE Raise("UnicodeDecodeError")

\* np.genfromtxt(StringIO(text), delimiter=",", skip_header=1), line 100:
\* the first line is dropped; lines of differing field counts are an error
GenFromTxt(text) ==
    LET rows == Tail(text)
    IN  IF \E r \in 1..Len(rows) : Len(rows[r]) # Len(rows[1])
          THEN Raise("ValueError")
          ELSE Ok(rows)

\* a[mask] for a boolean mask: the rows with a true mask entry, in order;
\* an IndexError when the lengths differ
MaskSelect(a, mask) ==
    LET idx == [k \in 1..Len(a) |-> k]
        Test(k) == mask[k]
        kept == SelectSeq(idx, Test)
    IN  [k \in 1..Len(kept) |-> a[kept[k]]]

\* np.append(a, b, axis=0), lines 107-108
NpAppendSwapped(a, b) == b \o a
NpAppend(a, b) == a \o b

\* l[start::step] as the sequence of (0-based) positions it visits
SliceIndices(n, start, step) ==
    IF n <= start THEN <<>>
    ELSE [k \in 1..(((n - start - 1) \div step) + 1) |-> start + (k - 1) * step]

\* HesaiPandar64Packets.from_bytes, line 123
FromBytes(data) ==
    IF data.truncated THEN Raise("MalformedPacketError")
    ELSE Ok([blocks |-> data.blocks, tail |-> [return_mode |-> data.return_mode]])

----------------------------------------------------------------------------
(* raw_hesai_to_cartesian, lines 121-155 *)

\* self.calibration_array[:, k], lines 126-127
Column(calib, k) == [r \in 1..Len(calib) |-> calib[r][k + 1]]

\* lines 130-135
BlockIterStart(return_mode) == IF return_mode = DualMarker THEN 1 ELSE 0
BlockIterStep(return_mode) == IF return_mode = DualMarker THEN 2 ELSE 1

\* line 148: valid_value_mask = distance_array != 0
AllValidMask(distance_array) == [c \in 1..Len(distance_array) |-> TRUE]
ValidValueMask(distance_array) == [c \in 1..Len(distance_array) |-> distance_array[c] # 0]

\* lines 139-155, the loop body for block number b of the packet: the rows
\* of the two arrays it returns.  elevation_array[mask] and
\* azimuth_array[mask] index calibration columns by a mask over the block's
\* channels.
BlockBody(calib, block, b, origin) ==
    LET elevation_array == Column(calib, 1)
        azimuth_array == [r \in 1..Len(calib) |-> Column(calib, 2)[r] + block.azimuth_deg]
        distance_array == [c \in 1..Len(block.channel) |-> block.channel[c].distance_value]
        reflectance_array_b == [c \in 1..Len(block.channel) |-> block.channel[c].reflectance_value]
        valid_value_mask == ValidValueMask(distance_array)
        src == [c \in 1..Len(block.channel) |->
                  [msg |-> origin.msg, pkt |-> origin.pkt, blk |-> b, ch |-> c - 1]]
        polar == [c \in 1..Len(block.channel) |->
                    [distance_mm |-> distance_array[c],
                     elevation_deg |-> elevation_array[c],
                     azimuth_deg |-> azimuth_array[c],
                     src |-> src[c]]]
        refl == [c \in 1..Len(block.channel) |->
                    [value |-> reflectance_array_b[c], src |-> src[c]]]
    IN  IF Len(calib) # Len(valid_value_mask)
          THEN Raise("IndexError")
          ELSE Ok([is_none |-> FALSE,
                   points |-> MaskSelect(polar, valid_value_mask),
                   reflectances |-> MaskSelect(refl, valid_value_mask),
                   blocks |-> <<b>>])

\* lines 138-155: the for loop over blocks[start::step]; its body ends in a
\* return, so the first selected block ends the loop, and a loop over no
\* block falls off the end of the function, which returns None
BlockLoop(calib, blocks, indices, origin) ==
    IF indices = <<>>
      THEN Ok(None)
      ELSE BlockBody(calib, blocks[Head(indices) + 1], Head(indices), origin)

\* lines 121-155
RawHesaiToCartesian(calib, data, origin) ==
    LET dto == FromBytes(data)
    IN  IF dto.exception # "none" THEN dto
        ELSE LET return_mode == dto.value.tail.return_mode
                 indices == SliceIndices(Len(dto.value.blocks),
                                         BlockIterStart(return_mode),
                                         BlockIterStep(return_mode))
             IN  BlockLoop(calib, dto.value.blocks, indices, origin)

\* line 104: tmp_point_array, tmp_reflectance_array = <the call>
UnpackPair(r) ==
    IF r.exception # "none" THEN r
    ELSE IF r.value.is_none THEN Raise("TypeError")
    ELSE r

----------------------------------------------------------------------------
(* export_pointclouds, lines 82-119 *)

\* lines 95-96: np.empty((0, 3)), np.empty((0, 1))
StalePointArray == point_array
FreshPointArray == <<>>
FreshReflectanceArray == <<>>

\* lines 99-100
KeepFirstCalibration(payload) ==
    IF calibration_array # Unset THEN Ok(calibration_array)
    ELSE LET t == Decode(payload)
         IN IF t.exception # "none" THEN t ELSE GenFromTxt(t.value)
LoadCalibration(payload) ==
    LET t == Decode(payload)
    IN  IF t.exception # "none" THEN t ELSE GenFromTxt(t.value)

\* line 115: np.repeat(reflectance_array, 3, axis=1) / 255
Colors(refl) ==
    [k \in 1..Len(refl) |->
        [rgb |-> <<refl[k].value, refl[k].value, refl[k].value>>, over |-> 255,
         src |-> refl[k].src]]

\* line 118: "%s.%s.ply" % (secs, nsecs)
PointCloudFileName(stamp) == <<stamp.secs, ".", stamp.nsecs, ".ply">>

\* what the spec calls a well-formed scan message: a calibration payload
\* that parses to one row per channel
WellFormedCalibration(payload) ==
    /\ LoadCalibration(payload).exception = "none"
    /\ Len(LoadCalibration(payload).value) = NumChannels

InitCommon ==
    /\ exception = "none"
    /\ warnings = <<>>
    /\ msg_number = -1
    /\ msg = NoMsg
    /\ i = 0
    /\ point_array = <<>>
    /\ reflectance_array = <<>>
    /\ pcd = [points |-> <<>>, colors |-> <<>>]
    /\ written = <<>>
    /\ well_formed = TRUE
    /\ hesai_udp_dto = Raise("none")
    /\ returned = Raise("none")
    /\ reconstructed = <<>>
    /\ exported_data = <<>>
    /\ calls = <<>>
    /\ csv_files = {}
    /\ overview = <<>>

\* export_pointclouds is called on a bag whose lidar topic holds n_messages
\* scan messages; line 83 has made the point cloud object
Init ==
    /\ InitCommon
    /\ pc = "for_msg"
    /\ n_messages \in 0..MaxMsgs
    /\ packets_left = MaxPackets
    /\ calibration_array = Unset
    /\ packet_data = NoPacket

\* lines 93-100: the next scan message is read, the arrays are emptied and
\* the calibration is parsed from its last packet
NextMessage ==
    /\ pc = "for_msg"
    /\ msg_number + 1 < n_messages
    /\ \E payload \in CalibrationPayloads, n \in 0..packets_left :
         LET cal == LoadCalibration(payload)
         IN  /\ msg' = [calibration |-> payload, n_firing |-> n,
                        stamp |-> Stamp(msg_number + 1)]
             /\ msg_number' = msg_number + 1
             /\ packets_left' = packets_left - n
             /\ i' = 0
             /\ point_array' = FreshPointArray
             /\ reflectance_array' = FreshReflectanceArray
             /\ well_formed' = WellFormedCalibration(payload)
             /\ IF cal.exception # "none"
                  THEN /\ pc' = "raised"
                       /\ exception' = cal.exception
                       /\ UNCHANGED calibration_array
                  ELSE /\ pc' = "for_packet"
                       /\ calibration_array' = cal.value
                       /\ UNCHANGED exception
    /\ UNCHANGED <<warnings, n_messages, pcd, written>>
    /\ UNCHANGED packetVars
    /\ UNCHANGED exportVars

\* lines 102-108: one firing packet of msg.packets[:-1]
ProcessPacket ==
    /\ pc = "for_packet"
    /\ i < msg.n_firing
    /\ \E data \in RawPackets :
         LET r == UnpackPair(RawHesaiToCartesian(calibration_array, data,
                                                 [msg |-> msg_number, pkt |-> i]))
         IN  /\ well_formed' = (well_formed /\ ~data.truncated)
             /\ IF r.exception # "none"
                  THEN /\ pc' = "raised"
                       /\ exception' = r.exception
                       /\ UNCHANGED <<i, point_array, reflectance_array>>
                  ELSE /\ point_array' = NpAppend(point_array, r.value.points)
                       /\ reflectance_array' = NpAppend(reflectance_array, r.value.reflectances)
                       /\ i' = i + 1
                       /\ UNCHANGED <<pc, exception>>
    /\ UNCHANGED <<warnings, n_messages, packets_left, msg_number, msg,
                   calibration_array, pcd, written>>
    /\ UNCHANGED packetVars
    /\ UNCHANGED exportVars

\* lines 113-119: the packets of msg are exhausted
WriteCloud ==
    /\ pc = "for_packet"
    /\ i = msg.n_firing
    /\ pcd' = [points |-> point_array, colors |-> Colors(reflectance_array)]
    /\ written' = Append(written, [name |-> PointCloudFileName(msg.stamp),
                                   points |-> pcd'.points,
                                   colors |-> pcd'.colors,
                                   msg |-> msg_number])
    /\ pc' = "for_msg"
    /\ UNCHANGED <<exception, warnings, n_messages, packets_left, msg_number, msg, i,
                   calibration_array, point_array, reflectance_array, well_formed>>
    /\ UNCHANGED packetVars
    /\ UNCHANGED exportVars

\* line 93: read_messages is exhausted, export_pointclouds returns
Return ==
    /\ pc = "for_msg"
    /\ msg_number + 1 = n_messages
    /\ pc' = "done"
    /\ UNCHANGED <<exception, warnings>>
    /\ UNCHANGED lidarVars
    /\ UNCHANGED packetVars
    /\ UNCHANGED exportVars

Next == NextMessage \/ ProcessPacket \/ WriteCloud \/ Return

Spec == Init /\ [][Next]_vars

----------------------------------------------------------------------------
(* raw_hesai_to_cartesian called on one packet, self.calibration_array      *)
(* being a table that line 100 has parsed                                   *)

ParsedCalibrations ==
    { LoadCalibration(p).value : p \in { q \in CalibrationPayloads :
                                          LoadCalibration(q).exception = "none" } }

InitPacket ==
    /\ InitCommon
    /\ pc = "call"
    /\ n_messages = 1
    /\ packets_left = 0
    /\ calibration_array \in ParsedCalibrations
    /\ packet_data \in RawPackets

\* lines 121-155, one call
CallRawHesaiToCartesian ==
    /\ pc = "call"
    /\ LET dto == FromBytes(packet_data)
           r == RawHesaiToCartesian(calibration_array, packet_data, [msg |-> 0, pkt |-> 0])
       IN  /\ hesai_udp_dto' = dto
           /\ returned' = r
           /\ reconstructed' = IF r.exception = "none" /\ ~r.value.is_none
                                 THEN r.value.blocks ELSE <<>>
           /\ exception' = r.exception
           /\ pc' = IF r.exception = "none" THEN "returned" ELSE "raised"
    /\ UNCHANGED <<warnings, packet_data>>
    /\ UNCHANGED lidarVars
    /\ UNCHANGED exportVars

NextPacket == CallRawHesaiToCartesian

SpecPacket == InitPacket /\ [][NextPacket]_vars

----------------------------------------------------------------------------
(* export_1d_data and __exit__, lines 55-63 and 157-254 *)

\* line 47
bag_unpack_dir == "debug_test_camera_lidar"

\* get_type_and_topic_info: the topics of the bag and their message types
BagTopics ==
    [t \in {"/pressure", "/illuminance", "/imu", "/magnetic_field", "/fix"} |->
        CASE t = "/pressure" -> "sensor_msgs/FluidPressure"
          [] t = "/illuminance" -> "sensor_msgs/Illuminance"
          [] t = "/imu" -> "sensor_msgs/Imu"
          [] t = "/magnetic_field" -> "sensor_msgs/MagneticField"
          [] t = "/fix" -> "sensor_msgs/NavSatFix"]

\* topic_filter arguments: the topics of the bag and one it does not hold
TopicFilters == DOMAIN BagTopics \cup {"/absent"}

\* sensor_name arguments: None, or a name
NoSensorName == <<>>
SensorNames == {NoSensorName, <<"sensor_a">>}

\* lines 168, 187, 206, 228: the branches of export_1d_data
SupportedTypes == {"sensor_msgs/FluidPressure", "sensor_msgs/Illuminance",
                   "sensor_msgs/Imu", "sensor_msgs/MagneticField"}

\* lines 171, 190, 209, 231
DefaultFileName(message_type) ==
    CASE message_type = "sensor_msgs/FluidPressure" -> "pressure_sensor_0.csv"
      [] message_type = "sensor_msgs/Illuminance" -> "illuminance_sensor_0.csv"
      [] message_type = "sensor_msgs/Imu" -> "inertial_measurement_unit_0.csv"
      [] message_type = "sensor_msgs/MagneticField" -> "magnetic_field_sensor_0.csv"

\* lines 180, 199, 218, 240
CsvHeader(message_type) ==
    CASE message_type = "sensor_msgs/FluidPressure" -> "timestamp fluid_pressure variance"
      [] message_type = "sensor_msgs/Illuminance" -> "timestamp illuminance variance"
      [] message_type = "sensor_msgs/Imu" ->
           "timestamp or_x or_y or_z or_w li_ac_x li_ac_y li_ac_z an_ve_x an_ve_y an_ve_z"
      [] message_type = "sensor_msgs/MagneticField" -> "timestamp x y z"

\* lines 170-174 (and the same in the other branches); a string is kept as
\* the sequence of the pieces it is concatenated from
ExportFileName(message_type, sensor_name) ==
    <<bag_unpack_dir, "/">> \o
    (IF sensor_name = NoSensorName THEN <<DefaultFileName(message_type)>>
                                   ELSE sensor_name \o <<".csv">>)

\* line 254
OverviewLine(export_filename, message_type, topic_filter) ==
    export_filename \o <<" ", message_type, " ", topic_filter>>

\* the with-block of line 309 has entered: __init__ has run
InitExport ==
    /\ InitCommon
    /\ pc = "with"
    /\ n_messages = 0
    /\ packets_left = 0
    /\ calibration_array = Unset
    /\ packet_data = NoPacket

\* lines 157-254, one call
Export1dData ==
    /\ pc = "with"
    /\ Len(calls) < MaxCalls
    /\ \E topic_filter \in TopicFilters, sensor_name \in SensorNames :
         /\ calls' = Append(calls, [topic_filter |-> topic_filter, sensor_name |-> sensor_name])
         /\ IF topic_filter \notin DOMAIN BagTopics
              THEN \* line 162
                   /\ pc' = "raised"
                   /\ exception' = "KeyError"
                   /\ UNCHANGED <<warnings, exported_data, csv_files>>
              ELSE LET message_type == BagTopics[topic_filter]
                   IN  IF message_type \in SupportedTypes
                         THEN LET export_filename == ExportFileName(message_type, sensor_name)
                              IN  /\ csv_files' = { f \in csv_files : f.name # export_filename }
                                                  \cup {[name |-> export_filename,
                                                         header |-> CsvHeader(message_type)]}
                                  /\ exported_data' = Append(exported_data,
                                        OverviewLine(export_filename, message_type, topic_filter))
                                  /\ UNCHANGED <<pc, exception, warnings>>
                         ELSE \* lines 248-254: export_filename was never assigned
                              /\ warnings' = Append(warnings, <<"The topic ", topic_filter,
                                                      " is not available in this bag file!">>)
                              /\ pc' = "raised"
                              /\ exception' = "UnboundLocalError"
                              /\ UNCHANGED <<exported_data, csv_files>>
    /\ UNCHANGED overview
    /\ UNCHANGED lidarVars
    /\ UNCHANGED packetVars

\* lines 55-63: the with statement calls __exit__ when its block ends,
\* normally or by an exception
Exit ==
    /\ pc \in {"with", "raised"}
    /\ overview' = <<"filename msg_type">> \o exported_data
    /\ pc' = "closed"
    /\ UNCHANGED <<exception, warnings, exported_data, calls, csv_files>>
    /\ UNCHANGED lidarVars
    /\ UNCHANGED packetVars

NextExport == Export1dData \/ Exit

SpecExport == InitExport /\ [][NextExport]_vars

----------------------------------------------------------------------------
(* Properties *)

Range(s) == { s[k] : k \in DOMAIN s }

\* the blocks the Return-Mode Resolver of the specification selects among
\* n blocks
AuthoritativeBlocks(return_mode, n) ==
    IF return_mode = DualMarker THEN { b \in 0..(n - 1) : b % 2 = 1 } ELSE 0..(n - 1)

\* the channels (1-based) of a block with a non-zero distance
ValidChannels(block) ==
    { c \in 1..Len(block.channel) : block.channel[c].distance_value # 0 }

\* the k-th of them, in channel order
NthValidChannel(block, k) ==
    CHOOSE c \in ValidChannels(block) :
        Cardinality({ d \in ValidChannels(block) : d <= c }) = k

\* row p comes before row q: packet order, then block order, then channel order
Before(p, q) ==
    \/ p.pkt < q.pkt
    \/ p.pkt = q.pkt /\ p.blk < q.blk
    \/ p.pkt = q.pkt /\ p.blk = q.blk /\ p.ch < q.ch

CalibrationErrors == {"UnicodeDecodeError", "ValueError"}

\* C1: after raw_hesai_to_cartesian has returned for a packet of N blocks,
\* the blocks it reconstructed are exactly the authoritative ones: the odd
\* block numbers below N in Dual mode, every block number below N otherwise.
C1_ReconstructsAuthoritativeBlocks ==
    pc = "returned" =>
        Range(reconstructed) =
            AuthoritativeBlocks(hesai_udp_dto.value.tail.return_mode,
                                Len(hesai_udp_dto.value.blocks))

\* C2: for every block raw_hesai_to_cartesian reconstructed, it returns as
\* many points, and as many reflectances, as the block has channels of
\* non-zero distance; no point has distance 0; the k-th point and the k-th
\* reflectance are those of the k-th channel of non-zero distance.
C2_ZeroDistanceDropped ==
    (pc = "returned" /\ ~returned.value.is_none) =>
        \A b \in Range(reconstructed) :
            LET block == hesai_udp_dto.value.blocks[b + 1]
                points == returned.value.points
                refl == returned.value.reflectances
            IN  /\ Len(points) = Cardinality(ValidChannels(block))
                /\ Len(refl) = Cardinality(ValidChannels(block))
                /\ \A k \in 1..Len(points) :
                      /\ points[k].distance_mm # 0
                      /\ points[k].distance_mm =
                             block.channel[NthValidChannel(block, k)].distance_value
                /\ \A k \in 1..Len(refl) :
                      refl[k].value =
                          block.channel[NthValidChannel(block, k)].reflectance_value

\* a block with a silent and a sounding channel was reconstructed
C2_Witness ==
    /\ pc = "returned"
    /\ ~returned.value.is_none
    /\ \E b \in Range(reconstructed) :
          LET block == hesai_udp_dto.value.blocks[b + 1]
          IN  /\ ValidChannels(block) # {}
              /\ ValidChannels(block) # 1..Len(block.channel)
    /\ Len(returned.value.points) >= 1

\* C3: a firing packet that cannot be decoded does not end the processing
\* of its scan message.
C3_MalformedPacketSkipped ==
    ~(pc = "raised" /\ exception = "MalformedPacketError")

\* C4: while the packets of scan message m are processed and after its cloud
\* is written, self.calibration_array is the table of m's own last packet
\* (its text without the header line) and every accumulated point has the
\* elevation that table gives its channel; only the step that reads the next
\* message, before that message's first packet, changes the table.
C4_CalibrationOfOwnMessage ==
    /\ []((msg_number >= 0 /\ (pc \in {"for_packet", "for_msg", "done"}
                               \/ (pc = "raised" /\ exception \notin CalibrationErrors))) =>
            /\ calibration_array = Tail(msg.calibration.text)
            /\ \A k \in 1..Len(point_array) :
                  point_array[k].elevation_deg =
                      Tail(msg.calibration.text)[point_array[k].src.ch + 1][2])
    /\ [][calibration_array' # calibration_array =>
            (pc = "for_msg" /\ msg_number' = msg_number + 1 /\ i' = 0
             /\ point_array' = <<>>)]_vars

\* the second message came with another table than the first, and both
\* gave points
C4_Witness ==
    /\ msg_number = 1
    /\ pc = "for_packet"
    /\ Len(point_array) >= 1
    /\ Len(written) = 1
    /\ Len(written[1].points) >= 1
    /\ written[1].points[1].elevation_deg # point_array[1].elevation_deg

\* C5: the rows of point_array are in packet order, then block order, then
\* channel order; they come from the firing packets of the current message
\* already processed; reflectance_array has one row per point, from the
\* same channel reading, in the same order.
C5_AccumulationOrder ==
    /\ Len(reflectance_array) = Len(point_array)
    /\ \A k \in 1..Len(point_array) :
          /\ reflectance_array[k].src = point_array[k].src
          /\ point_array[k].src.msg = msg_number
          /\ point_array[k].src.pkt \in 0..(i - 1)
          /\ point_array[k].src.pkt < msg.n_firing
    /\ \A k, l \in 1..Len(point_array) :
          k < l => Before(point_array[k].src, point_array[l].src)

\* points of two packets, and two points of one block, have been accumulated
C5_Witness ==
    /\ Len(point_array) >= 3
    /\ \E k, l \in 1..Len(point_array) :
          /\ point_array[k].src.pkt # point_array[l].src.pkt
    /\ \E k, l \in 1..Len(point_array) :
          /\ point_array[k].src.pkt = point_array[l].src.pkt
          /\ point_array[k].src.ch # point_array[l].src.ch

\* C6: a scan message whose inputs are all well formed is never abandoned;
\* every message read so far and not abandoned has caused exactly one write,
\* made after its last firing packet, under the name of its stamp.
C6_WellFormedMessageAssembled ==
    /\ pc = "raised" => ~well_formed
    /\ pc \in {"for_msg", "done"} =>
          /\ Len(written) = msg_number + 1
          /\ msg_number >= 0 =>
                written[Len(written)].name = <<msg.stamp.secs, ".", msg.stamp.nsecs, ".ply">>

\* C7: a packet whose marker is neither the Single nor the Dual one is
\* processed as the same packet with the Single marker would be, and a
\* warning is issued for it.
C7_UnknownModeWarned ==
    (pc \in {"returned", "raised"}
     /\ hesai_udp_dto.exception = "none"
     /\ hesai_udp_dto.value.tail.return_mode \notin {SingleMarker, DualMarker}) =>
        /\ returned = RawHesaiToCartesian(calibration_array,
                                          [packet_data EXCEPT !.return_mode = SingleMarker],
                                          [msg |-> 0, pkt |-> 0])
        /\ Len(warnings) >= 1

\* C8: after the calibration of a scan message failed to decode or parse,
\* the run goes on to the later scan messages: it has not ended while
\* messages are left.
C8_CalibrationFailureSkipsOneMessage ==
    ~(pc = "raised" /\ exception \in CalibrationErrors /\ msg_number + 1 < n_messages)

\* C9: the point cloud object always holds as many colours as points, and
\* every cloud written holds rows of its own scan message only; the cloud
\* just written for message m is point_array as accumulated from m's
\* packets, with the colours of reflectance_array.
C9_CloudOfOwnMessage ==
    /\ Len(pcd.points) = Len(pcd.colors)
    /\ \A n \in 1..Len(written) :
          /\ written[n].msg = n - 1
          /\ Len(written[n].points) = Len(written[n].colors)
          /\ \A k \in 1..Len(written[n].points) :
                /\ written[n].points[k].src.msg = written[n].msg
                /\ written[n].colors[k].src = written[n].points[k].src
    /\ (pc \in {"for_msg", "done"} /\ msg_number >= 0) =>
          /\ written[Len(written)].points = point_array
          /\ Len(written[Len(written)].colors) = Len(reflectance_array)
          /\ \A k \in 1..Len(reflectance_array) :
                written[Len(written)].colors[k].rgb =
                    <<reflectance_array[k].value, reflectance_array[k].value,
                      reflectance_array[k].value>>

\* two scan messages have been written, each with points, the second with
\* fewer than the first
C9_Witness ==
    /\ Len(written) = 2
    /\ Len(written[2].points) >= 1
    /\ Len(written[1].points) > Len(written[2].points)

\* the calls, among the first n, on a topic of the bag with a supported type
SupportedCalls(n) ==
    LET Supported(c) == /\ c.topic_filter \in DOMAIN BagTopics
                        /\ BagTopics[c.topic_filter] \in SupportedTypes
    IN  SelectSeq(SubSeq(calls, 1, n), Supported)

\* C10: exported_data holds one entry '<filename> <msg_type> <topic>' per
\* call on a topic of a supported type, in call order; a call on a topic of
\* the bag whose message type is none of the four supported ones returns
\* normally; and __exit__ writes overview.csv listing the exports.
C10_UnsupportedTypeOnlyWarns ==
    /\ Len(exported_data) = Len(SupportedCalls(Len(calls)))
    /\ \A k \in 1..Len(exported_data) :
          LET c == SupportedCalls(Len(calls))[k]
          IN  exported_data[k] =
                  ExportFileName(BagTopics[c.topic_filter], c.sensor_name)
                  \o <<" ", BagTopics[c.topic_filter], " ", c.topic_filter>>
    /\ (/\ Len(calls) >= 1
        /\ calls[Len(calls)].topic_filter \in DOMAIN BagTopics
        /\ BagTopics[calls[Len(calls)].topic_filter] \notin SupportedTypes) =>
          /\ exception = "none"
          /\ pc # "raised"
    /\ pc = "closed" => overview = <<"filename msg_type">> \o exported_data

====
